---- MODULE Spec2Model ----
(***************************************************************************)
(* Model of safetynet.py: the SafetyNet monitor and the dronekit vehicle   *)
(* attributes it reads, listens to and writes.                             *)
(*                                                                         *)
(* Altitudes are integers in units of 1/Scale metre, so that readings      *)
(* strictly inside the band (safe_alt, safe_alt + 1) exist.  The wall      *)
(* clock read by time.time() is an input of each location event.           *)
(***************************************************************************)
EXTENDS Integers, Sequences, FiniteSets, TLC

\* ---- bounds -------------------------------------------------------------
Scale == 2          \* altitude units per metre
MaxSafeAlt == 1     \* largest safe altitude, in metres
MaxTime == 2        \* distinct wall-clock values

SafeAlts == {Scale * m : m \in 1..MaxSafeAlt}
\* Readings reach one unit above the band of the largest safe altitude.
Alts == 0..(Scale * (MaxSafeAlt + 1) + 1)
Times == 1..MaxTime
Modes == {"LAND", "RTL", "BRAKE", "LOITER"}
SafeModes == {"BRAKE", "LOITER"}

\* ---- state --------------------------------------------------------------
VARIABLES
    safe_alt,       \* self.safe_alt, in altitude units
    safe_mode,      \* self.safe_mode
    active,         \* self.active   (the spec's "triggered")
    enabled,        \* self.enabled  (the spec's "monitoringEnabled")
    last_alt,       \* self.last_alt
    last_alt_time,  \* self.last_alt_time
    listeners,      \* attribute names self has a listener registered for
    v_armed,        \* vehicle.armed, as last reported
    v_mode,         \* vehicle.mode, as last reported
    boot_alt,       \* vehicle altitude read by the constructor
    ev,             \* the event of the last step, what the handler saw of
                    \* it (nothing when no listener was registered) and did
    commanded,      \* history: a mode override was issued since construction
    high_since,     \* history: an altitude > safe_alt + 1 was handled while
                    \* enabled since the last override (or construction)
    rejected,       \* the last step's assignment to vehicle.mode raised
    pc,             \* the code in progress when handlers or the constructor
                    \* are taken statement by statement: where it is and the
                    \* altitude it was called with
    scn             \* history: how many events of scenario 1 the run has
                    \* followed since construction, -1 once it has left it

vars == <<safe_alt, safe_mode, active, enabled, last_alt, last_alt_time,
          listeners, v_armed, v_mode, boot_alt, ev, commanded, high_since,
          rejected, pc, scn>>

\* The monitor object together with the vehicle's listener table.
Self == [safe_alt |-> safe_alt, safe_mode |-> safe_mode, active |-> active,
         enabled |-> enabled, last_alt |-> last_alt,
         last_alt_time |-> last_alt_time, listeners |-> listeners]

\* ---- SafetyNet ----------------------------------------------------------
\* Variant: the mode listener is registered along with the armed listener.
init_callbacks_WithMode(s) ==
    [s EXCEPT !.listeners = @ \cup {"armed", "mode"}]

init_callbacks(s) ==
    [s EXCEPT !.listeners = @ \cup {"armed"}]

\* Variant: the mode listener is forgotten.
enable_safety_net_LocationOnly(s) ==
    [s EXCEPT !.listeners = @ \cup {"global_relative_frame"},
              !.enabled = TRUE]

enable_safety_net(s) ==
    [s EXCEPT !.listeners = @ \cup {"global_relative_frame", "mode"},
              !.enabled = TRUE]

\* Variant: disabling leaves the mode listener registered.
disable_safety_net_KeepsMode(s) ==
    [s EXCEPT !.listeners = @ \ {"global_relative_frame"},
              !.enabled = FALSE]

\* Variant: disabling also forgets that the net was activated.
disable_safety_net_ResetsActive(s) ==
    [s EXCEPT !.listeners = @ \ {"global_relative_frame", "mode"},
              !.enabled = FALSE, !.active = FALSE]

disable_safety_net(s) ==
    [s EXCEPT !.listeners = @ \ {"global_relative_frame", "mode"},
              !.enabled = FALSE]

\* Variant: every armed notification toggles, whatever its value.
armed_callback_Toggle(s, aval) ==
    IF ~s.enabled THEN enable_safety_net(s) ELSE disable_safety_net(s)

armed_callback(s, aval) ==
    IF aval THEN enable_safety_net(s) ELSE disable_safety_net(s)

\* Variant: RTL is not recognised.
RecoveryMode_LandOnly(name) ==
    name \in {"LAND"}

RecoveryMode(name) ==
    name \in {"LAND", "RTL"}

mode_callback(s, name) ==
    IF RecoveryMode(name) THEN [s EXCEPT !.enabled = FALSE]
                          ELSE [s EXCEPT !.enabled = TRUE]

\* Variant: the boot test uses the handler's comparison.
BelowAtBoot_Inclusive(alt, sa) ==
    alt <= sa

\* Variant: the boot altitude is not looked at.
BelowAtBoot_Never(alt, sa) ==
    FALSE

BelowAtBoot(alt, sa) ==
    alt < sa

\* Variant: a band of two metres.
Deactivates_WideBand(alt, sa) ==
    alt > sa + 2 * Scale

\* Variant: no hysteresis band.
Deactivates_NoBand(alt, sa) ==
    alt > sa

Deactivates(alt, sa) ==
    alt > sa + 1 * Scale

Activates(alt, sa) ==
    alt <= sa

\* c_pos/c_time raises ZeroDivisionError when the clock did not advance.
RateRaises(s, now) ==
    s.last_alt # 0 /\ now - s.last_alt_time = 0

\* Variant: the default mode is commanded, not the configured one.
ModeOverride_Default(s) ==
    <<"BRAKE">>

ModeOverride(s) ==
    <<s.safe_mode>>

\* Variant: the handler does not look at self.enabled.
location_callback_NoGuard(s, alt, now) ==
    IF RateRaises(s, now)
    THEN [self |-> s, mode_set |-> <<>>, raised |-> TRUE]
    ELSE LET s1 == [s EXCEPT !.last_alt = alt, !.last_alt_time = now]
         IN  IF s1.active
             THEN IF Deactivates(alt, s1.safe_alt)
                  THEN [self |-> [s1 EXCEPT !.active = FALSE],
                        mode_set |-> <<>>, raised |-> FALSE]
                  ELSE [self |-> s1, mode_set |-> <<>>, raised |-> FALSE]
             ELSE IF Activates(alt, s1.safe_alt)
                  THEN [self |-> [s1 EXCEPT !.active = TRUE],
                        mode_set |-> ModeOverride(s1), raised |-> FALSE]
                  ELSE [self |-> s1, mode_set |-> <<>>, raised |-> FALSE]

\* Variant: the reading is recorded before self.enabled is looked at.
location_callback_RecordsFirst(s, alt, now) ==
    LET s1 == [s EXCEPT !.last_alt = alt, !.last_alt_time = now]
    IN  IF ~s.enabled
        THEN [self |-> s1, mode_set |-> <<>>, raised |-> FALSE]
        ELSE IF RateRaises(s, now)
        THEN [self |-> s, mode_set |-> <<>>, raised |-> TRUE]
        ELSE IF s1.active
             THEN IF Deactivates(alt, s1.safe_alt)
                  THEN [self |-> [s1 EXCEPT !.active = FALSE],
                        mode_set |-> <<>>, raised |-> FALSE]
                  ELSE [self |-> s1, mode_set |-> <<>>, raised |-> FALSE]
             ELSE IF Activates(alt, s1.safe_alt)
                  THEN [self |-> [s1 EXCEPT !.active = TRUE],
                        mode_set |-> ModeOverride(s1), raised |-> FALSE]
                  ELSE [self |-> s1, mode_set |-> <<>>, raised |-> FALSE]

\* Result: the monitor afterwards, the values assigned to vehicle.mode, and
\* whether an exception left the handler.
location_callback(s, alt, now) ==
    IF ~s.enabled
    THEN [self |-> s, mode_set |-> <<>>, raised |-> FALSE]
    ELSE IF RateRaises(s, now)
    THEN [self |-> s, mode_set |-> <<>>, raised |-> TRUE]
    ELSE LET s1 == [s EXCEPT !.last_alt = alt, !.last_alt_time = now]
         IN  IF s1.active
             THEN IF Deactivates(alt, s1.safe_alt)
                  THEN [self |-> [s1 EXCEPT !.active = FALSE],
                        mode_set |-> <<>>, raised |-> FALSE]
                  ELSE [self |-> s1, mode_set |-> <<>>, raised |-> FALSE]
             ELSE IF Activates(alt, s1.safe_alt)
                  THEN [self |-> [s1 EXCEPT !.active = TRUE],
                        mode_set |-> ModeOverride(s1), raised |-> FALSE]
                  ELSE [self |-> s1, mode_set |-> <<>>, raised |-> FALSE]

\* The handler when the assignment to vehicle.mode at line 91 raises: what
\* precedes it has been done, line 92 is not reached.
location_callback_rejected(s, alt, now) ==
    LET r == location_callback(s, alt, now)
    IN  IF r.mode_set = <<>>
        THEN r
        ELSE [self |-> [r.self EXCEPT !.active = s.active],
              mode_set |-> <<>>, raised |-> TRUE]

\* SafetyNet.__init__
SafetyNet(vehicle_armed, vehicle_alt, sa, sm) ==
    LET s0 == [safe_alt |-> sa, safe_mode |-> sm, active |-> FALSE,
               enabled |-> FALSE, last_alt |-> 0, last_alt_time |-> 0,
               listeners |-> {}]
        s1 == init_callbacks(s0)
        s2 == IF vehicle_armed THEN enable_safety_net(s1) ELSE s1
    IN  IF BelowAtBoot(vehicle_alt, sa) THEN [s2 EXCEPT !.active = TRUE]
                                        ELSE s2

\* ---- scenario 1 ---------------------------------------------------------
Metres(m) == m * Scale

\* 12.5 m, rounded down to the altitude unit.
TwelveAndAHalf == 12 * Scale + (Scale \div 2)

Scenario1SafeAlt == Metres(10)
Scenario1BootAlt == Metres(50)
Scenario1Alts == {Metres(7), Metres(8), Metres(12), TwelveAndAHalf,
                  Metres(50)}

\* The events that follow the construction: arm, then four readings.
Scenario1 ==
    << [type |-> "armed", armed |-> TRUE, alt |-> 0],
       [type |-> "location", armed |-> FALSE, alt |-> Metres(8)],
       [type |-> "location", armed |-> FALSE, alt |-> Metres(7)],
       [type |-> "location", armed |-> FALSE, alt |-> Metres(12)],
       [type |-> "location", armed |-> FALSE, alt |-> TwelveAndAHalf] >>

Scenario1Start(a, alt, sa, sm) ==
    IF ~a /\ alt = Scenario1BootAlt /\ sa = Scenario1SafeAlt /\ sm = "BRAKE"
    THEN 0 ELSE -1

\* The run stays on the scenario when the handled event is the next one of
\* it and, for a reading, the clock differs from the previous reading's.
Scenario1Step(k, type, armed, alt, delivered, fresh) ==
    IF /\ k >= 0
       /\ k < Len(Scenario1)
       /\ delivered
       /\ fresh
       /\ Scenario1[k + 1] = [type |-> type, armed |-> armed, alt |-> alt]
    THEN k + 1 ELSE -1

\* ---- the state machine --------------------------------------------------
Idle == [at |-> "idle", alt |-> 0]

Event(type, armed, mode, alt, delivered, mode_set, raised) ==
    [type |-> type, armed |-> armed, mode |-> mode, alt |-> alt,
     delivered |-> delivered, was_enabled |-> enabled, was_active |-> active,
     mode_set |-> mode_set, raised |-> raised]

Store(s) ==
    /\ safe_alt' = s.safe_alt
    /\ safe_mode' = s.safe_mode
    /\ active' = s.active
    /\ enabled' = s.enabled
    /\ last_alt' = s.last_alt
    /\ last_alt_time' = s.last_alt_time
    /\ listeners' = s.listeners

\* The state right after SafetyNet(vehicle, sa, sm) returned, the vehicle
\* being armed or not (a), in mode m, at altitude alt.
Constructed(a, m, alt, sa, sm) ==
        LET s == SafetyNet(a, alt, sa, sm)
        IN  /\ safe_alt = s.safe_alt
            /\ safe_mode = s.safe_mode
            /\ active = s.active
            /\ enabled = s.enabled
            /\ last_alt = s.last_alt
            /\ last_alt_time = s.last_alt_time
            /\ listeners = s.listeners
            /\ v_armed = a
            /\ v_mode = m
            /\ boot_alt = alt
            /\ ev = [type |-> "init", armed |-> a, mode |-> m, alt |-> alt,
                     delivered |-> FALSE, was_enabled |-> FALSE,
                     was_active |-> FALSE, mode_set |-> <<>>,
                     raised |-> FALSE]
            /\ commanded = FALSE
            /\ high_since = FALSE
            /\ rejected = FALSE
            /\ pc = Idle
            /\ scn = Scenario1Start(a, alt, sa, sm)

Init ==
    \E a \in BOOLEAN, m \in Modes, alt \in Alts, sa \in SafeAlts,
       sm \in SafeModes :
        Constructed(a, m, alt, sa, sm)

\* The vehicle reports its armed state; the listener is notified.
ArmedEvent ==
    \E aval \in BOOLEAN :
        /\ v_armed' = aval
        /\ IF "armed" \in listeners
           THEN /\ Store(armed_callback(Self, aval))
                /\ ev' = Event("armed", aval, "", 0, TRUE, <<>>, FALSE)
           ELSE /\ Store(Self)
                /\ ev' = Event("armed", aval, "", 0, FALSE, <<>>, FALSE)
        /\ scn' = Scenario1Step(scn, "armed", aval, 0, "armed" \in listeners,
                                TRUE)
        /\ rejected' = FALSE
        /\ UNCHANGED <<v_mode, boot_alt, commanded, high_since, pc>>

\* The vehicle reports a flight mode; the listener, if any, is notified.
ModeEvent ==
    \E name \in Modes :
        /\ v_mode' = name
        /\ IF "mode" \in listeners
           THEN /\ Store(mode_callback(Self, name))
                /\ ev' = Event("mode", FALSE, name, 0, TRUE, <<>>, FALSE)
           ELSE /\ Store(Self)
                /\ ev' = Event("mode", FALSE, name, 0, FALSE, <<>>, FALSE)
        /\ scn' = -1
        /\ rejected' = FALSE
        /\ UNCHANGED <<v_armed, boot_alt, commanded, high_since, pc>>

\* The vehicle reports a position; the listener, if any, is notified.
LocationEventOn(altitudes) ==
    \E alt \in altitudes, now \in Times :
        /\ IF "global_relative_frame" \in listeners
           THEN LET r == location_callback(Self, alt, now)
                IN  /\ Store(r.self)
                    /\ ev' = Event("location", FALSE, "", alt, TRUE,
                                   r.mode_set, r.raised)
                    /\ commanded' = (commanded \/ r.mode_set # <<>>)
                    /\ high_since' =
                         IF r.mode_set # <<>> THEN FALSE
                         ELSE high_since
                              \/ (enabled /\ alt > safe_alt + 1 * Scale)
           ELSE /\ Store(Self)
                /\ ev' = Event("location", FALSE, "", 0, FALSE, <<>>,
                               FALSE)
                /\ UNCHANGED <<commanded, high_since>>
        /\ scn' = Scenario1Step(scn, "location", FALSE, alt,
                                "global_relative_frame" \in listeners,
                                now # last_alt_time)
        /\ rejected' = FALSE
        /\ UNCHANGED <<v_armed, v_mode, boot_alt, pc>>

LocationEvent == LocationEventOn(Alts)

Next == ArmedEvent \/ ModeEvent \/ LocationEvent

Spec == Init /\ [][Next]_vars

\* Scenario 1: constructed disarmed at 50 m with safe_alt = 10 m and safe
\* mode BRAKE; the events take their altitudes from the scenario's.
InitScenario1 ==
    \E m \in Modes :
        Constructed(FALSE, m, Scenario1BootAlt, Scenario1SafeAlt, "BRAKE")

NextScenario1 ==
    ArmedEvent \/ ModeEvent \/ LocationEventOn(Scenario1Alts)

SpecScenario1 == InitScenario1 /\ [][NextScenario1]_vars

\* A position notification that was on its way when a disarm event removed
\* the location listener still reaches location_callback.
StaleLocationEvent ==
    \E alt \in Alts, now \in Times :
        /\ ev.type = "armed"
        /\ ev.delivered
        /\ ~ev.armed
        /\ ev.was_enabled
        /\ "global_relative_frame" \notin listeners
        /\ LET r == location_callback(Self, alt, now)
           IN  /\ Store(r.self)
               /\ ev' = Event("location", FALSE, "", alt, TRUE, r.mode_set,
                              r.raised)
               /\ commanded' = (commanded \/ r.mode_set # <<>>)
               /\ high_since' =
                    IF r.mode_set # <<>> THEN FALSE
                    ELSE high_since
                         \/ (enabled /\ alt > safe_alt + 1 * Scale)
        /\ scn' = -1
        /\ rejected' = FALSE
        /\ UNCHANGED <<v_armed, v_mode, boot_alt, pc>>

NextStale == Next \/ StaleLocationEvent

SpecStale == Init /\ [][NextStale]_vars

\* A position report whose handler reaches line 91 while the vehicle link
\* refuses the mode (the setter raises).
LocationEventRejected ==
    \E alt \in Alts, now \in Times :
        /\ "global_relative_frame" \in listeners
        /\ location_callback(Self, alt, now).mode_set # <<>>
        /\ LET r == location_callback_rejected(Self, alt, now)
           IN  /\ Store(r.self)
               /\ ev' = Event("location", FALSE, "", alt, TRUE, r.mode_set,
                              r.raised)
        /\ rejected' = TRUE
        /\ scn' = -1
        /\ UNCHANGED <<v_armed, v_mode, boot_alt, commanded, high_since, pc>>

NextRejects == Next \/ LocationEventRejected

SpecRejects == Init /\ [][NextRejects]_vars

\* Construction from a configuration the command line accepts although the
\* safe altitude is not positive or the safe mode is empty.
InvalidSafeAlts == {0 - Scale, 0}

InitInvalidConfig ==
    \E a \in BOOLEAN, m \in Modes, alt \in Alts,
       sa \in SafeAlts \cup InvalidSafeAlts, sm \in SafeModes \cup {""} :
        /\ sa \in InvalidSafeAlts \/ sm = ""
        /\ Constructed(a, m, alt, sa, sm)

SpecInvalidConfig == InitInvalidConfig /\ [][Next]_vars

\* ---- location_callback statement by statement ---------------------------
\* The armed and mode handlers may run between two of these steps.

\* Lines 70-72: the call and the test of self.enabled.
LocationEnter ==
    \E alt \in Alts :
        /\ pc = Idle
        /\ "global_relative_frame" \in listeners
        /\ pc' = IF enabled THEN [at |-> "l74", alt |-> alt] ELSE Idle
        /\ ev' = Event("location", FALSE, "", alt, TRUE, <<>>, FALSE)
        /\ high_since' = (high_since
                            \/ (enabled /\ alt > safe_alt + 1 * Scale))
        /\ scn' = -1
        /\ rejected' = FALSE
        /\ UNCHANGED <<safe_alt, safe_mode, active, enabled, last_alt,
                       last_alt_time, listeners, v_armed, v_mode, boot_alt,
                       commanded>>

\* Lines 74-83: the clock, the vertical rate, the recorded reading.
LocationRecord ==
    \E now \in Times :
        /\ pc.at = "l74"
        /\ IF RateRaises(Self, now)
           THEN /\ pc' = Idle
                /\ ev' = Event("location", FALSE, "", pc.alt, TRUE, <<>>,
                               TRUE)
                /\ UNCHANGED <<last_alt, last_alt_time>>
           ELSE /\ pc' = [pc EXCEPT !.at = "l85"]
                /\ ev' = Event("location", FALSE, "", pc.alt, TRUE, <<>>,
                               FALSE)
                /\ last_alt' = pc.alt
                /\ last_alt_time' = now
        /\ UNCHANGED <<safe_alt, safe_mode, active, enabled, listeners,
                       v_armed, v_mode, boot_alt, commanded, high_since,
                       rejected, scn>>

\* Lines 85-90: the tests of self.active and of the altitude, and line 87.
LocationDecide ==
    /\ pc.at = "l85"
    /\ IF active
       THEN /\ active' = ~Deactivates(pc.alt, safe_alt)
            /\ pc' = Idle
       ELSE /\ active' = active
            /\ pc' = IF Activates(pc.alt, safe_alt)
                     THEN [pc EXCEPT !.at = "l91"] ELSE Idle
    /\ ev' = Event("location", FALSE, "", pc.alt, TRUE, <<>>, FALSE)
    /\ UNCHANGED <<safe_alt, safe_mode, enabled, last_alt, last_alt_time,
                   listeners, v_armed, v_mode, boot_alt, commanded,
                   high_since, rejected, scn>>

\* Line 91: the assignment to vehicle.mode.
LocationCommand ==
    /\ pc.at = "l91"
    /\ pc' = [pc EXCEPT !.at = "l92"]
    /\ ev' = Event("location", FALSE, "", pc.alt, TRUE, ModeOverride(Self),
                   FALSE)
    /\ commanded' = TRUE
    /\ high_since' = FALSE
    /\ UNCHANGED <<safe_alt, safe_mode, active, enabled, last_alt,
                   last_alt_time, listeners, v_armed, v_mode, boot_alt,
                   rejected, scn>>

\* Line 92.
LocationActivate ==
    /\ pc.at = "l92"
    /\ pc' = Idle
    /\ active' = TRUE
    /\ ev' = Event("location", FALSE, "", pc.alt, TRUE, <<>>, FALSE)
    /\ UNCHANGED <<safe_alt, safe_mode, enabled, last_alt, last_alt_time,
                   listeners, v_armed, v_mode, boot_alt, commanded,
                   high_since, rejected, scn>>

NextOverlap ==
    \/ ArmedEvent
    \/ ModeEvent
    \/ LocationEnter
    \/ LocationRecord
    \/ LocationDecide
    \/ LocationCommand
    \/ LocationActivate

SpecOverlap == Init /\ [][NextOverlap]_vars

\* ---- SafetyNet.__init__ statement by statement --------------------------
\* The constructor runs on the caller's thread; the vehicle link's thread
\* notifies listeners as soon as they are registered.  The vehicle stays
\* armed or disarmed, in its mode and at its altitude (boot_alt) meanwhile,
\* so only position reports arrive.

\* Lines 17-23 done.
InitBoot ==
    \E a \in BOOLEAN, m \in Modes, alt \in Alts, sa \in SafeAlts,
       sm \in SafeModes :
        /\ safe_alt = sa
        /\ safe_mode = sm
        /\ active = FALSE
        /\ enabled = FALSE
        /\ last_alt = 0
        /\ last_alt_time = 0
        /\ listeners = {}
        /\ v_armed = a
        /\ v_mode = m
        /\ boot_alt = alt
        /\ ev = [type |-> "new", armed |-> a, mode |-> m, alt |-> alt,
                 delivered |-> FALSE, was_enabled |-> FALSE,
                 was_active |-> FALSE, mode_set |-> <<>>, raised |-> FALSE]
        /\ commanded = FALSE
        /\ high_since = FALSE
        /\ rejected = FALSE
        /\ pc = [at |-> "c25", alt |-> 0]
        /\ scn = -1

CtorStep(at, next, s) ==
    /\ pc.at = at
    /\ pc' = [pc EXCEPT !.at = next]
    /\ Store(s)
    /\ ev' = Event("init", v_armed, v_mode, boot_alt, FALSE, <<>>, FALSE)
    /\ UNCHANGED <<v_armed, v_mode, boot_alt, commanded, high_since,
                   rejected, scn>>

\* Line 25.
CtorCallbacks ==
    CtorStep("c25", "c27", init_callbacks(Self))

\* Lines 27-28.
CtorArm ==
    CtorStep("c27", "c30",
             IF v_armed THEN enable_safety_net(Self) ELSE Self)

\* Lines 30-31.
CtorAlt ==
    CtorStep("c30", "idle",
             IF BelowAtBoot(boot_alt, safe_alt)
             THEN [Self EXCEPT !.active = TRUE] ELSE Self)

\* A position report while the constructor is running.
BootLocationEvent ==
    /\ pc # Idle
    /\ LocationEventOn({boot_alt})

\* Any event once the constructor has returned.
AfterBoot ==
    /\ pc = Idle
    /\ Next

NextBoot ==
    \/ CtorCallbacks
    \/ CtorArm
    \/ CtorAlt
    \/ BootLocationEvent
    \/ AfterBoot

SpecBoot == InitBoot /\ [][NextBoot]_vars

TypeOK ==
    /\ safe_alt \in SafeAlts
    /\ safe_mode \in SafeModes
    /\ active \in BOOLEAN
    /\ enabled \in BOOLEAN
    /\ last_alt \in Alts
    /\ last_alt_time \in {0} \cup Times
    /\ listeners \subseteq {"armed", "mode", "global_relative_frame"}
    /\ v_armed \in BOOLEAN
    /\ v_mode \in Modes
    /\ boot_alt \in Alts

\* ---- properties ---------------------------------------------------------
Handled(type) == ev.type = type /\ ev.delivered

\* C1: a step that starts with self.enabled false assigns nothing to
\* vehicle.mode, whatever the altitude of the event.
C1_NoOverrideWhileDisabled ==
    [][~enabled => ev'.mode_set = <<>>]_vars

\* A low reading at which the net would have activated was handled while
\* disabled.
C1_Witness ==
    /\ Handled("location")
    /\ ~ev.was_enabled
    /\ ~ev.was_active
    /\ ev.alt <= safe_alt
    /\ ~commanded

\* C2: a step issues at most one override, and an override that is not the
\* first one is preceded, since the previous one, by a location event handled
\* while enabled with altitude > safe_alt + 1.
C2_OncePerExcursion ==
    [][/\ Len(ev'.mode_set) <= 1
       /\ (ev'.mode_set # <<>> /\ commanded) => high_since]_vars

\* After an override, a reading at or below safe_alt was handled while
\* enabled without the altitude having exceeded safe_alt + 1: no override.
C2_Witness ==
    /\ Handled("location")
    /\ ev.was_enabled
    /\ ~ev.raised
    /\ ev.alt <= safe_alt
    /\ commanded
    /\ ~high_since
    /\ ev.mode_set = <<>>

\* C3: self.active goes from true to false only in a location event handled
\* while enabled with altitude > safe_alt + 1.
C3_ClearedOnlyAboveBand ==
    [][(active /\ ~active') =>
           /\ ev'.type = "location"
           /\ ev'.delivered
           /\ enabled
           /\ ev'.alt > safe_alt + 1 * Scale]_vars

\* self.active was cleared by the last step.
C3_Witness ==
    /\ Handled("location")
    /\ ev.was_active
    /\ ~active

\* C4: self.active goes from false to true only in a location event handled
\* while enabled with altitude <= safe_alt, that step assigns safe_mode to
\* vehicle.mode exactly once, and no other step assigns to vehicle.mode.
C4_OverrideIffActivation ==
    [][/\ (~active /\ active') =>
              /\ ev'.type = "location"
              /\ ev'.delivered
              /\ enabled
              /\ ev'.alt <= safe_alt
              /\ ev'.mode_set = <<safe_mode>>
       /\ (ev'.mode_set # <<>>) =>
              /\ ~active
              /\ active'
              /\ ev'.type = "location"]_vars

\* The last step activated the net and commanded the configured mode.
C4_Witness ==
    /\ Handled("location")
    /\ ~ev.was_active
    /\ active
    /\ ev.mode_set = <<safe_mode>>
    /\ safe_mode # "BRAKE"

\* C5: self.enabled is true only if the vehicle's last reported armed state
\* is true and its last reported mode is neither LAND nor RTL.
C5_EnabledOnlyArmedOutsideRecovery ==
    enabled => (v_armed /\ v_mode \notin {"LAND", "RTL"})

\* C6: after an armed event is handled, self.enabled equals the reported
\* armed value.
C6_ArmedSetsEnabled ==
    [][(ev'.type = "armed" /\ ev'.delivered) => enabled' = ev'.armed]_vars

\* The vehicle was re-armed while in a recovery mode with the net disabled.
C6_Witness ==
    /\ Handled("armed")
    /\ ev.armed
    /\ ~ev.was_enabled
    /\ v_mode \in {"LAND", "RTL"}
    /\ enabled

\* C7: after a mode event is handled, self.enabled is false for LAND and RTL
\* and true for any other mode; self.active and the listeners are unchanged.
C7_ModeSetsEnabled ==
    [][(ev'.type = "mode" /\ ev'.delivered) =>
           /\ enabled' = (ev'.mode \notin {"LAND", "RTL"})
           /\ active' = active
           /\ listeners' = listeners]_vars

\* RTL was reported while the net was enabled.
C7_Witness ==
    /\ Handled("mode")
    /\ ev.mode = "RTL"
    /\ ev.was_enabled
    /\ ~enabled

\* C8: a location event handled while enabled leaves self.active true if
\* altitude <= safe_alt (with an override exactly when it was false before),
\* false if altitude > safe_alt + 1, and unchanged without override otherwise.
C8_HysteresisPostcondition ==
    [][(ev'.type = "location" /\ ev'.delivered /\ enabled) =>
           /\ (ev'.alt <= safe_alt) =>
                  /\ active'
                  /\ (ev'.mode_set # <<>>) = ~active
           /\ (ev'.alt > safe_alt + 1 * Scale) => ~active'
           /\ (ev'.alt > safe_alt /\ ev'.alt <= safe_alt + 1 * Scale) =>
                  /\ active' = active
                  /\ ev'.mode_set = <<>>]_vars

\* C9: construction leaves self.enabled equal to vehicle.armed and
\* self.active equal to (altitude < safe_alt) and assigns nothing to
\* vehicle.mode; when constructed below safe_alt, no override is issued
\* before an altitude > safe_alt + 1 has been handled while enabled.
C9_Construction ==
    /\ [](ev.type = "init" =>
              /\ enabled = v_armed
              /\ active = (boot_alt < safe_alt)
              /\ ev.mode_set = <<>>
              /\ ~commanded)
    /\ [][(boot_alt < safe_alt /\ ~commanded /\ ~high_since) =>
              ev'.mode_set = <<>>]_vars

\* Constructed armed below safe_alt; a later low reading was handled while
\* enabled and nothing has been commanded.
C9_Witness ==
    /\ boot_alt < safe_alt
    /\ Handled("location")
    /\ ev.was_enabled
    /\ ~ev.raised
    /\ ev.alt <= safe_alt
    /\ active
    /\ ~commanded

\* C10 as stated: right after construction the armed and the mode listeners
\* are both registered, whatever the armed state.
C10_SubscribedToArmedAndMode ==
    ev.type = "init" => {"armed", "mode"} \subseteq listeners

\* C10 amended: right after construction the armed listener is registered;
\* the mode and location listeners are registered exactly when the vehicle
\* is armed, and a mode event that follows a disarmed construction is not
\* handled.
C10_SubscribedAtConstruction ==
    /\ [](ev.type = "init" =>
              /\ "armed" \in listeners
              /\ ("mode" \in listeners) = v_armed
              /\ ("global_relative_frame" \in listeners) = v_armed)
    /\ [][(ev.type = "init" /\ ~v_armed /\ ev'.type = "mode") =>
              /\ ~ev'.delivered
              /\ enabled' = enabled]_vars

\* A mode event occurred while nothing but the armed listener was registered
\* and was not handled.
C10_Witness ==
    /\ ev.type = "mode"
    /\ ~ev.delivered
    /\ ~v_armed
    /\ ~enabled
    /\ listeners = {"armed"}

\* C11 as stated: a mode event to a mode other than LAND and RTL that occurs
\* while the last reported armed state is false is handled and leaves
\* self.enabled true.
C11_ModeHandledWhileDisarmed ==
    [][(~v_armed /\ ev'.type = "mode" /\ ev'.mode \notin {"LAND", "RTL"}) =>
           /\ ev'.delivered
           /\ enabled']_vars

\* C11 amended: the mode handler never runs while the last reported armed
\* state is false, and self.enabled is never true then.
C11_ModeHandledOnlyWhileArmed ==
    /\ Handled("mode") => v_armed
    /\ enabled => v_armed
    /\ ("mode" \in listeners) = v_armed

\* After a disarm, a mode event to a mode other than LAND and RTL was not
\* handled and the net stayed disabled.
C11_Witness ==
    /\ ev.type = "mode"
    /\ ~ev.delivered
    /\ ev.mode \notin {"LAND", "RTL"}
    /\ v_mode = ev.mode
    /\ ~v_armed
    /\ ~enabled
    /\ last_alt # 0

\* C12 as stated: along scenario 1, construction leaves active and enabled
\* false; arming enables; the reading of 8 m commands BRAKE and activates;
\* 7 m commands nothing; 12 m changes nothing (active stays true); 12.5 m
\* clears active.
C12_Scenario1AsStated ==
    /\ scn = 0 => (~active /\ ~enabled)
    /\ scn = 1 => enabled
    /\ scn = 2 => (ev.mode_set = <<"BRAKE">> /\ active)
    /\ scn = 3 => (ev.mode_set = <<>> /\ active)
    /\ scn = 4 => (ev.mode_set = <<>> /\ active)
    /\ scn = 5 => ~active

\* C12 amended: as above, each reading taken at a clock value other than the
\* previous reading's, except that 12 m, being above safe_alt + 1 = 11 m,
\* already clears active, and 12.5 m then changes nothing.
C12_Scenario1 ==
    /\ scn = 0 => (~active /\ ~enabled /\ ev.mode_set = <<>>)
    /\ scn = 1 => (enabled /\ ~active)
    /\ scn = 2 => (ev.mode_set = <<"BRAKE">> /\ active)
    /\ scn = 3 => (ev.mode_set = <<>> /\ active)
    /\ scn = 4 => (ev.mode_set = <<>> /\ ev.was_active /\ ~active)
    /\ scn = 5 => (ev.mode_set = <<>> /\ ~ev.was_active /\ ~active)

\* The whole of scenario 1 was followed.
C12_Witness ==
    /\ scn = 5
    /\ safe_alt = Metres(10)
    /\ ev.alt = TwelveAndAHalf
    /\ commanded

\* C13: a location event handled while self.enabled is false, the stale one
\* that follows the removal of the listener included, changes none of
\* active, last_alt, last_alt_time, enabled and the listeners, assigns
\* nothing to vehicle.mode and raises nothing.
C13_DisabledLocationChangesNothing ==
    [][(ev'.type = "location" /\ ev'.delivered /\ ~enabled) =>
           /\ UNCHANGED <<active, last_alt, last_alt_time, enabled,
                          listeners>>
           /\ ev'.mode_set = <<>>
           /\ ~ev'.raised]_vars

\* A stale low reading was handled after the disarm that removed the
\* listener, the net not being activated.
C13_Witness ==
    /\ Handled("location")
    /\ "global_relative_frame" \notin listeners
    /\ ~v_armed
    /\ ~ev.was_enabled
    /\ ~active
    /\ ev.alt <= safe_alt
    /\ ev.alt # last_alt

\* C14: when the assignment to vehicle.mode raises, the handler still leaves
\* self.active true, and the next low reading handled while enabled does not
\* attempt the assignment again.
C14_RejectedStillActivates ==
    [][/\ rejected' => active'
       /\ (rejected /\ ev'.type = "location" /\ ev'.delivered /\ enabled
             /\ ev'.alt <= safe_alt) =>
              (~rejected' /\ ev'.mode_set = <<>>)]_vars

\* C15: no location event handled while enabled raises; each records its
\* altitude and clock reading.
C15_LocationNeverRaises ==
    [][(ev'.type = "location" /\ ev'.delivered /\ enabled) =>
           /\ ~ev'.raised
           /\ last_alt' = ev'.alt
           /\ last_alt_time' \in Times]_vars

\* C16: a configuration with safe_alt <= 0 or an empty safe mode yields no
\* monitor: no listener is registered, the net is never enabled and no
\* override is ever issued.
C16_InvalidConfigRejected ==
    (safe_alt <= 0 \/ safe_mode = "") =>
        (listeners = {} /\ ~enabled /\ ~commanded)

\* C17: with the armed and mode handlers running between the statements of
\* location_callback, vehicle.mode is still never assigned while
\* self.enabled is false (a disarm or LAND/RTL event having completed), and
\* self.active becomes true only right after that assignment.
C17_OverlapPreservesInvariants ==
    [][/\ (ev'.mode_set # <<>>) => enabled
       /\ (~active /\ active') => pc.at = "l92"]_vars

\* C18: with position reports delivered while the constructor runs, a
\* vehicle that is (armed and) below safe_alt at construction is sent no
\* override before an altitude > safe_alt + 1 has been handled while enabled.
C18_NoOverrideDuringConstruction ==
    [][(boot_alt < safe_alt /\ ~commanded /\ ~high_since) =>
           ev'.mode_set = <<>>]_vars

\* C19: with events delivered one at a time to registered listeners, the
\* location listener is registered exactly when the mode listener is, the
\* armed listener always is, and self.enabled implies that the location and
\* mode listeners are registered.
C19_SubscriptionsConsistent ==
    /\ ("global_relative_frame" \in listeners) = ("mode" \in listeners)
    /\ "armed" \in listeners
    /\ enabled => {"global_relative_frame", "mode"} \subseteq listeners

\* After LAND all three listeners are registered and the net is disabled.
C19_Witness ==
    /\ Handled("mode")
    /\ ev.mode = "LAND"
    /\ listeners = {"armed", "mode", "global_relative_frame"}
    /\ ~enabled
    /\ v_armed

\* C20: constructed at exactly safe_alt, self.active starts false and the
\* first location event handled while enabled, if its altitude is
\* <= safe_alt, assigns safe_mode to vehicle.mode; constructed strictly below
\* safe_alt, that event assigns nothing.
C20_BootBoundary ==
    /\ []((ev.type = "init" /\ boot_alt = safe_alt) => ~active)
    /\ [][(/\ last_alt_time = 0
           /\ enabled
           /\ ev'.type = "location"
           /\ ev'.delivered
           /\ ev'.alt <= safe_alt) =>
              /\ (boot_alt = safe_alt) => ev'.mode_set = <<safe_mode>>
              /\ (boot_alt < safe_alt) => ev'.mode_set = <<>>]_vars

\* Constructed at exactly safe_alt; the first reading handled while enabled
\* was at or below safe_alt and was answered with the override.
C20_Witness ==
    /\ boot_alt = safe_alt
    /\ Handled("location")
    /\ ev.was_enabled
    /\ ~ev.was_active
    /\ ev.alt <= safe_alt
    /\ ev.mode_set = <<safe_mode>>
    /\ ~high_since
    /\ active

====
